---------------------------- MODULE Spec2Model ----------------------------
(***************************************************************************)
(* Model of the concept/relationship consolidation pipeline of             *)
(* src/api/services/text_processing.py (class TextProcessingService).      *)
(*                                                                         *)
(* Numbers.  An importance is an integer number of hundredths (0.7 is 70). *)
(* A cosine similarity or a strength is kept exactly as a record           *)
(* [num, den] that stands for num / sqrt(den), den > 0, so that the        *)
(* comparisons the code makes (>=, >, max) are made on exact values.       *)
(***************************************************************************)
EXTENDS Integers, Sequences, FiniteSets, TLC

VARIABLES
    pc,             \* position of the call being modelled
    concepts,       \* the concept list the call works on / returns
    relationships,  \* the relationship list the call works on / returns
    inConcepts,     \* the concept list as passed to the last operation
    inRels,         \* the relationship list as passed to the last operation
    groups,         \* per run of the Deduplicator, the groups it formed
    runs,           \* how many times the Deduplicator has run
    text,           \* process_text: the input text
    chunks,         \* process_text: the chunk list
    chunkIdx,       \* process_text: chunks already sent to extract_concepts
    flags,          \* process_text: [extract_rels, generate_embeddings]
    calls,          \* process_text: outcome of every external call made so far
    error,          \* process_text: the exception raised ("" when none)
    graphs,         \* GraphService._graphs: the entries in insertion order
    nodes,          \* GraphService: the node list passed to create_graph
    edges,          \* GraphService: the edge list passed to create_graph
    directed,       \* GraphService: the directed flag passed to create_graph
    reply           \* GraphService: the last call and what it returned

\* the variables of the text-processing pipeline
pipelineVars == << pc, concepts, relationships, inConcepts, inRels, groups,
                   runs, text, chunks, chunkIdx, flags, calls, error >>

\* the variables of the graph store
storeVars == << graphs, nodes, edges, directed, reply >>

vars == << pc, concepts, relationships, inConcepts, inRels, groups, runs,
           text, chunks, chunkIdx, flags, calls, error,
           graphs, nodes, edges, directed, reply >>

-----------------------------------------------------------------------------
(* Bounds of the model *)

MaxConcepts == 4

MaxRels == 2

\* process_text: concepts all extract_concepts calls of a request return
MaxExtracted == 3

\* process_text: relationships one relationship-extraction reply holds
MaxReply == 2

\* create_graph: nodes in the node list
MaxNodes == 2

\* create_graph: edges in the edge list
MaxEdges == 2

-----------------------------------------------------------------------------
(* Python values *)

None == "None"

NoEmbedding == << >>

\* 'embedding' in c
HasEmbedding(c) == c.embedding # NoEmbedding

\* truthiness of a name held in a variable initialised to None
Truthy(name) == name # None /\ name # ""

Concept(name, description, importance, embedding) ==
    [ name |-> name, description |-> description, importance |-> importance,
      embedding |-> embedding, aliases |-> {}, tier |-> 0, connections |-> -1 ]

Relationship(source, target, type, strength, description, inferred) ==
    [ source |-> source, target |-> target, type |-> type,
      strength |-> strength, description |-> description,
      inferred |-> inferred ]

\* a float q/100 as num / sqrt(den)
Hundredths(q) == [ num |-> q, den |-> 10000 ]

RECURSIVE SumTo(_, _)
SumTo(f, n) == IF n = 0 THEN 0 ELSE f[n] + SumTo(f, n - 1)

\* np.dot
Dot(v1, v2) == SumTo([ i \in DOMAIN v1 |-> v1[i] * v2[i] ], Len(v1))

\* the sign-preserving square: x |-> x * |x| is strictly increasing
SgnSq(x) == IF x >= 0 THEN x * x ELSE -(x * x)

\* a > b and a >= b for values num / sqrt(den)
ValGT(a, b) == SgnSq(a.num) * b.den > SgnSq(b.num) * a.den

ValGE(a, b) == SgnSq(a.num) * b.den >= SgnSq(b.num) * a.den

ValMax(a, b) == IF ValGT(b, a) THEN b ELSE a

\* cosine_similarity: 0.0 when a norm is zero, else dot / (norm1 * norm2)
cosine_similarity(vec1, vec2) ==
    LET dot_product == Dot(vec1, vec2)
        sq1 == Dot(vec1, vec1)
        sq2 == Dot(vec2, vec2)
    IN  IF sq1 = 0 \/ sq2 = 0
        THEN [ num |-> 0, den |-> 1 ]
        ELSE [ num |-> dot_product, den |-> sq1 * sq2 ]

\* the initial best_similarity = -1
MinusOne == [ num |-> -1, den |-> 1 ]

\* best_similarity * 0.8 with no floor
BridgeStrengthNoFloor(sim) == [ num |-> 8 * sim.num, den |-> 100 * sim.den ]

\* max(0.5, float(best_similarity * 0.8))
BridgeStrength(sim) ==
    ValMax(Hundredths(50), [ num |-> 8 * sim.num, den |-> 100 * sim.den ])

\* max(items, key=...) returns the first item with the largest key
FirstMax(key) ==
    CHOOSE i \in DOMAIN key :
        /\ \A j \in DOMAIN key : key[j] <= key[i]
        /\ \A j \in DOMAIN key : j < i => key[j] < key[i]

-----------------------------------------------------------------------------
(* build_hierarchy_and_connectivity *)

NamesOf(cs) == { cs[i].name : i \in DOMAIN cs }

\* next(c for c in concepts if c['name'] == name)
ConceptByName(cs, name) ==
    cs[CHOOSE i \in DOMAIN cs :
          cs[i].name = name /\ \A j \in DOMAIN cs : j < i => cs[j].name # name]

\* the guard of the adjacency loop
Counted(cs, rel) == rel.source \in NamesOf(cs) /\ rel.target \in NamesOf(cs)

Adjacency(cs, rels) ==
    [ n \in NamesOf(cs) |->
        { m \in NamesOf(cs) :
            \E k \in DOMAIN rels :
                /\ Counted(cs, rels[k])
                /\ \/ rels[k].source = n /\ rels[k].target = m
                   \/ rels[k].source = m /\ rels[k].target = n } ]

\* one relationship adds 1 at its source and 1 at its target
Occurrences(rels, n) ==
      Cardinality({ k \in DOMAIN rels : rels[k].source = n })
    + Cardinality({ k \in DOMAIN rels : rels[k].target = n })

ConnectionCounts(cs, rels) ==
    LET counted == SelectSeq(rels, LAMBDA r : Counted(cs, r))
    IN  [ n \in NamesOf(cs) |-> Occurrences(counted, n) ]

\* the breadth-first search from one name: everything reachable from it
RECURSIVE Bfs(_, _)
Bfs(adjacency, component) ==
    LET next == component \cup UNION { adjacency[n] : n \in component }
    IN  IF next = component THEN component ELSE Bfs(adjacency, next)

RECURSIVE ComponentsFrom(_, _, _, _)
ComponentsFrom(cs, adjacency, i, visited) ==
    IF i > Len(cs) THEN << >>
    ELSE IF cs[i].name \in visited
         THEN ComponentsFrom(cs, adjacency, i + 1, visited)
         ELSE LET component == Bfs(adjacency, { cs[i].name })
              IN  << component >>
                  \o ComponentsFrom(cs, adjacency, i + 1, visited \cup component)

find_connected_components(cs, adjacency) ==
    ComponentsFrom(cs, adjacency, 1, {})

\* min(components, key=len) in place of max
SmallestComponent(components) ==
    components[FirstMax([ i \in DOMAIN components |-> -Cardinality(components[i]) ])]

\* max(components, key=len)
MainComponent(components) ==
    components[FirstMax([ i \in DOMAIN components |-> Cardinality(components[i]) ])]

PairSimilarity(cs, p) ==
    cosine_similarity(ConceptByName(cs, p[1]).embedding,
                      ConceptByName(cs, p[2]).embedding)

\* the pairs the bridge search compares: a source of the component, a
\* target of the main component, both with an embedding
EmbeddedPairs(cs, component, main_component) ==
    { p \in component \X main_component :
        /\ HasEmbedding(ConceptByName(cs, p[1]))
        /\ HasEmbedding(ConceptByName(cs, p[2])) }

\* The pairs the search can end with.  A pair replaces the best one only
\* when strictly more similar, starting from -1; both loops run over Python
\* sets, whose order is not fixed, so any most-similar pair can be the one
\* met first.
BestPairs(cs, component, main_component) ==
    LET pairs == EmbeddedPairs(cs, component, main_component)
    IN  { p \in pairs :
            /\ ValGT(PairSimilarity(cs, p), MinusOne)
            /\ \A q \in pairs :
                   ValGE(PairSimilarity(cs, p), PairSimilarity(cs, q)) }

EmbeddingBridge(cs, p) ==
    Relationship(p[1], p[2], "related-to",
                 BridgeStrength(PairSimilarity(cs, p)),
                 "Bridge connection (component merge)", TRUE)

\* the member of a component with the highest importance, first on a tie
HighestImportance(cs, component) ==
    LET members == SelectSeq(cs, LAMBDA c : c.name \in component)
    IN  members[FirstMax([ i \in DOMAIN members |-> members[i].importance ])]

\* a fallback that takes both ends from the minor component
FallbackWithinComponent(cs, component, main_component) ==
    Relationship(HighestImportance(cs, component).name,
                 HighestImportance(cs, component).name,
                 "related-to", Hundredths(60),
                 "Bridge connection (fallback)", TRUE)

FallbackBridge(cs, component, main_component) ==
    Relationship(HighestImportance(cs, component).name,
                 HighestImportance(cs, main_component).name,
                 "related-to", Hundredths(60),
                 "Bridge connection (fallback)", TRUE)

\* the bridges one non-main component can get
BridgeChoices(cs, component, main_component) ==
    LET best == BestPairs(cs, component, main_component)
        usable == { p \in best : Truthy(p[1]) /\ Truthy(p[2]) }
    IN  { EmbeddingBridge(cs, p) : p \in usable }
        \cup ( IF best = {} \/ usable # best
               THEN { FallbackBridge(cs, component, main_component) }
               ELSE {} )

\* a bridging loop that leaves one-concept components to the isolation sweep
RECURSIVE BridgesSkippingSingletons(_, _, _, _)
BridgesSkippingSingletons(cs, components, main_component, i) ==
    IF i > Len(components) THEN { << >> }
    ELSE IF components[i] = main_component \/ Cardinality(components[i]) = 1
         THEN BridgesSkippingSingletons(cs, components, main_component, i + 1)
         ELSE { << b >> \o rest :
                  b \in BridgeChoices(cs, components[i], main_component),
                  rest \in BridgesSkippingSingletons(cs, components,
                                                     main_component, i + 1) }

\* the loop over the components: every sequence of bridges it can produce
RECURSIVE BridgesFrom(_, _, _, _)
BridgesFrom(cs, components, main_component, i) ==
    IF i > Len(components) THEN { << >> }
    ELSE IF components[i] = main_component
         THEN BridgesFrom(cs, components, main_component, i + 1)
         ELSE { << b >> \o rest :
                  b \in BridgeChoices(cs, components[i], main_component),
                  rest \in BridgesFrom(cs, components, main_component, i + 1) }

ComponentBridges(cs, rels) ==
    LET components == find_connected_components(cs, Adjacency(cs, rels))
    IN  IF Len(components) > 1
        THEN BridgesFrom(cs, components, MainComponent(components), 1)
        ELSE { << >> }

\* a count that is never raised
BumpNothing(counts, n) == counts

\* the re-count after bridging
Bump(counts, n) ==
    IF n \in DOMAIN counts THEN [ counts EXCEPT ![n] = @ + 1 ] ELSE counts

\* no re-count: the connections are those of the relationships passed
SkipBridgeCount(counts, new_relationships, k) == counts

RECURSIVE CountBridges(_, _, _)
CountBridges(counts, new_relationships, k) ==
    IF k > Len(new_relationships) THEN counts
    ELSE CountBridges(Bump(Bump(counts, new_relationships[k].source),
                           new_relationships[k].target),
                      new_relationships, k + 1)

\* best_match of the isolation sweep: 0 when there is none, else the index
\* of the first concept of another name that is the most similar
BestMatch(cs, i) ==
    LET cand == { j \in DOMAIN cs :
                    cs[j].name # cs[i].name /\ HasEmbedding(cs[j]) }
        sim(j) == cosine_similarity(cs[i].embedding, cs[j].embedding)
        best == { j \in cand :
                    /\ ValGT(sim(j), MinusOne)
                    /\ \A q \in cand : ValGE(sim(j), sim(q))
                    /\ \A q \in cand : q < j => ValGT(sim(j), sim(q)) }
    IN  IF best = {} THEN 0 ELSE CHOOSE j \in best : TRUE

ConnectivityLink(cs, i, j) ==
    Relationship(cs[i].name, cs[j].name, "related-to",
                 BridgeStrength(cosine_similarity(cs[i].embedding,
                                                  cs[j].embedding)),
                 "Connectivity link", TRUE)

\* the loop over the isolated concepts: [links, counts] after it
RECURSIVE Sweep(_, _, _, _, _)
Sweep(cs, isolated, k, links, counts) ==
    IF k > Len(isolated) THEN [ links |-> links, counts |-> counts ]
    ELSE LET i == isolated[k]
             j == IF HasEmbedding(cs[i]) THEN BestMatch(cs, i) ELSE 0
         IN  IF j = 0
             THEN Sweep(cs, isolated, k + 1, links, counts)
             ELSE Sweep(cs, isolated, k + 1,
                        Append(links, ConnectivityLink(cs, i, j)),
                        Bump(Bump(counts, cs[i].name), cs[j].name))

\* the indices of the concepts with no connection, in list order
RECURSIVE IsolatedFrom(_, _, _)
IsolatedFrom(cs, counts, i) ==
    IF i > Len(cs) THEN << >>
    ELSE ( IF counts[cs[i].name] = 0 THEN << i >> ELSE << >> )
         \o IsolatedFrom(cs, counts, i + 1)

IsolationSweep(cs, counts) ==
    Sweep(cs, IsolatedFrom(cs, counts, 1), 1, << >>, counts)

\* importance > 0.7 or connections >= 2
IsCore(importance, connections) == importance > 70 \/ connections >= 2

AssignTiers(cs, counts) ==
    [ i \in DOMAIN cs |->
        [ cs[i] EXCEPT !.tier = IF IsCore(cs[i].importance, counts[cs[i].name])
                                THEN 1 ELSE 2,
                       !.connections = counts[cs[i].name] ] ]

\* no promotion
NoTierFloor(cs) == cs

\* at least one tier-1 concept: promote the most important one
TierFloor(cs) ==
    IF cs # << >> /\ \A i \in DOMAIN cs : cs[i].tier # 1
    THEN [ cs EXCEPT ![FirstMax([ i \in DOMAIN cs |-> cs[i].importance ])].tier = 1 ]
    ELSE cs

\* new_relationships + relationships in place of relationships + new_relationships
BuildResultBridgesFirst(cs, rels, bridges) ==
    LET counted == CountBridges(ConnectionCounts(cs, rels), bridges, 1)
        swept == IsolationSweep(cs, counted)
    IN  [ concepts |-> TierFloor(AssignTiers(cs, swept.counts)),
          relationships |-> bridges \o swept.links \o rels ]

\* what the function returns once the bridges are chosen
BuildResult(cs, rels, bridges) ==
    LET counted == CountBridges(ConnectionCounts(cs, rels), bridges, 1)
        swept == IsolationSweep(cs, counted)
    IN  [ concepts |-> TierFloor(AssignTiers(cs, swept.counts)),
          relationships |-> rels \o bridges \o swept.links ]

\* the general path taken whatever the number of concepts
BuildResultsInGeneral(cs, rels) ==
    { BuildResult(cs, rels, bridges) : bridges \in ComponentBridges(cs, rels) }

\* every result the function can return
BuildResults(cs, rels) ==
    IF cs = << >>
    THEN { [ concepts |-> cs, relationships |-> rels ] }
    ELSE IF Len(cs) = 1
    THEN { [ concepts |-> << [ cs[1] EXCEPT !.tier = 1, !.connections = 0 ] >>,
             relationships |-> rels ] }
    ELSE { BuildResult(cs, rels, bridges) : bridges \in ComponentBridges(cs, rels) }

-----------------------------------------------------------------------------
(* _merge_dupes_by_embedding *)

\* sim_thresh = 0.87
SimThresh == Hundredths(87)

\* a group that takes only the concepts strictly above the threshold
GroupOfStrict(cs, i, used, sim_thresh) ==
    << i >> \o
    SelectSeq([ j \in 1..Len(cs) |-> j ],
              LAMBDA j :
                  /\ j > i
                  /\ j \notin used
                  /\ HasEmbedding(cs[i]) /\ HasEmbedding(cs[j])
                  /\ ValGT(cosine_similarity(cs[i].embedding, cs[j].embedding),
                           sim_thresh))

\* the members of the group anchored at concept i: i itself, then every
\* later concept not yet used whose similarity to the anchor is >= thresh
GroupOf(cs, i, used, sim_thresh) ==
    << i >> \o
    SelectSeq([ j \in 1..Len(cs) |-> j ],
              LAMBDA j :
                  /\ j > i
                  /\ j \notin used
                  /\ HasEmbedding(cs[i]) /\ HasEmbedding(cs[j])
                  /\ ValGE(cosine_similarity(cs[i].embedding, cs[j].embedding),
                           sim_thresh))

SeqRange(s) == { s[k] : k \in DOMAIN s }

\* the outer loop: the groups, in the order they are formed
RECURSIVE GroupsFrom(_, _, _, _)
GroupsFrom(cs, i, used, sim_thresh) ==
    IF i > Len(cs) THEN << >>
    ELSE IF i \in used
         THEN GroupsFrom(cs, i + 1, used, sim_thresh)
         ELSE LET group == GroupOf(cs, i, used, sim_thresh)
              IN  << group >>
                  \o GroupsFrom(cs, i + 1, used \cup SeqRange(group), sim_thresh)

\* best = group[0]: the anchor kept whatever the importances
AnchorAsCanonical(cs, group) == group[1]

\* best = max(group, key=importance): the index of the canonical concept
Canonical(cs, group) ==
    group[FirstMax([ k \in DOMAIN group |-> cs[group[k]].importance ])]

\* {g.get('name') for g in group if g is not best}
AliasesOf(cs, group) ==
    { cs[g].name : g \in SeqRange(group) \ { Canonical(cs, group) } }

\* best['aliases'] = aliases without the guard "if aliases"
SurvivorAlwaysAliased(cs, group) ==
    [ cs[Canonical(cs, group)] EXCEPT !.aliases = AliasesOf(cs, group) ]

\* best, with best['aliases'] set only when there are aliases
Survivor(cs, group) ==
    IF AliasesOf(cs, group) # {}
    THEN [ cs[Canonical(cs, group)] EXCEPT !.aliases = AliasesOf(cs, group) ]
    ELSE cs[Canonical(cs, group)]

MergeGroups(cs, sim_thresh) == GroupsFrom(cs, 1, {}, sim_thresh)

\* the groups of one run, each with the index of its canonical concept
GroupRecords(cs, sim_thresh) ==
    LET gs == MergeGroups(cs, sim_thresh)
    IN  [ k \in DOMAIN gs |->
            [ members |-> gs[k], best |-> Canonical(cs, gs[k]) ] ]

\* out.insert(0, best) in place of out.append(best)
MergeDupesPrepending(cs, sim_thresh) ==
    LET gs == MergeGroups(cs, sim_thresh)
    IN  [ k \in DOMAIN gs |-> Survivor(cs, gs[Len(gs) + 1 - k]) ]

\* the merge loop of _merge_dupes_by_embedding, after the embedding step
merge_dupes_by_embedding(cs, sim_thresh) ==
    LET gs == MergeGroups(cs, sim_thresh)
    IN  [ k \in DOMAIN gs |-> Survivor(cs, gs[k]) ]

\* any('embedding' not in c for c in concepts)
NeedEmbed(cs) == \E i \in DOMAIN cs : ~HasEmbedding(cs[i])

\* embed(texts): the vector the embedding model returns for the text
\* "name: description" (the description decides it)
EmbeddingOf(description) ==
    CASE description = "d1" -> << 1, 0 >>
      [] description = "d2" -> << 3, 1 >>
      [] description = "d3" -> << 1, 1 >>
      [] description = "d4" -> << 0, 1 >>
      [] OTHER -> << 0, 0 >>

\* for i, c in enumerate(concepts): c['embedding'] = embeds[i]
EmbedAll(cs) ==
    [ i \in DOMAIN cs |-> [ cs[i] EXCEPT !.embedding = EmbeddingOf(cs[i].description) ] ]

-----------------------------------------------------------------------------
(* GraphService (src/api/services/graph_service.py).  A NetworkX graph is
   kept as [directed, nodes, edges]: nodes maps a node id to its attributes
   (the label), edges maps an edge key to its attributes (the type).  The
   store _graphs is kept as the list of its entries in insertion order; the
   created_at time stamp of the metadata is left out. *)

\* G.add_node(node_id, **attributes): a node already there keeps its place
\* and takes the new attributes
add_node(G, node) == [ G EXCEPT !.nodes = ( node.id :> node.label ) @@ @ ]

\* every graph a DiGraph: (u, v) and (v, u) are two edges
KeyAlwaysDirected(is_directed, u, v) == { << u, v >> }

\* what identifies an edge: (u, v) in a DiGraph, the unordered pair in a Graph
edge_key(is_directed, u, v) ==
    IF is_directed THEN { << u, v >> } ELSE { << u, v >>, << v, u >> }

\* G.add_edge(source, target, **attributes)
add_edge(G, edge) ==
    [ G EXCEPT !.edges =
          ( edge_key(G.directed, edge.source, edge.target) :> edge.type ) @@ @ ]

\* nx.DiGraph() if directed else nx.Graph()
NewGraph(is_directed) ==
    [ directed |-> is_directed, nodes |-> << >>, edges |-> << >> ]

number_of_nodes(G) == Cardinality(DOMAIN G.nodes)

number_of_edges(G) == Cardinality(DOMAIN G.edges)

Accepted(G) == [ error |-> "", graph |-> G ]

Refused(G) == [ error |-> "ValueError", graph |-> G ]

\* the loop over the nodes: stops at the first node with no id
RECURSIVE AddNodes(_, _, _)
AddNodes(G, node_list, i) ==
    IF i > Len(node_list) THEN Accepted(G)
    ELSE IF ~Truthy(node_list[i].id) THEN Refused(G)
         ELSE AddNodes(add_node(G, node_list[i]), node_list, i + 1)

\* the loop over the edges: stops at the first edge with no source or
\* target, or with an endpoint that is not a node of G
RECURSIVE AddEdges(_, _, _)
AddEdges(G, edge_list, i) ==
    IF i > Len(edge_list) THEN Accepted(G)
    ELSE IF ~Truthy(edge_list[i].source) \/ ~Truthy(edge_list[i].target)
         THEN Refused(G)
    ELSE IF edge_list[i].source \notin DOMAIN G.nodes THEN Refused(G)
    ELSE IF edge_list[i].target \notin DOMAIN G.nodes THEN Refused(G)
    ELSE AddEdges(add_edge(G, edge_list[i]), edge_list, i + 1)

\* the graph create_graph builds before it stores anything
BuildGraph(node_list, edge_list, is_directed) ==
    LET with_nodes == AddNodes(NewGraph(is_directed), node_list, 1)
    IN  IF with_nodes.error # "" THEN with_nodes
        ELSE AddEdges(with_nodes.graph, edge_list, 1)

Metadata(graph_id, G) ==
    [ graph_id |-> graph_id,
      node_count |-> number_of_nodes(G),
      edge_count |-> number_of_edges(G),
      directed |-> G.directed ]

Entry(graph_id, G) ==
    [ id |-> graph_id, graph |-> G, metadata |-> Metadata(graph_id, G) ]

\* graph_id in self._graphs
graph_exists(store, graph_id) ==
    \E k \in DOMAIN store : store[k].id = graph_id

\* self._graphs.get(graph_id), for an id that is stored
EntryOf(store, graph_id) ==
    store[CHOOSE k \in DOMAIN store : store[k].id = graph_id]

\* the None returned in place of a graph or of a dictionary
NoneFound == [ found |-> FALSE ]

get_graph(store, graph_id) ==
    IF graph_exists(store, graph_id) THEN EntryOf(store, graph_id).graph
    ELSE NoneFound

get_graph_metadata(store, graph_id) ==
    IF graph_exists(store, graph_id) THEN EntryOf(store, graph_id).metadata
    ELSE NoneFound

\* the two ends of an edge, from its key
Ends(key) == CHOOSE p \in key : TRUE

\* G.degree(n): the edge ends at n, in and out
node_degree(G, n) ==
    LET at(key) == ( IF Ends(key)[1] = n THEN 1 ELSE 0 )
                       + ( IF Ends(key)[2] = n THEN 1 ELSE 0 )
        RECURSIVE Sum(_)
        Sum(keys) == IF keys = {} THEN 0
                     ELSE LET key == CHOOSE k \in keys : TRUE
                          IN  at(key) + Sum(keys \ { key })
    IN  Sum(DOMAIN G.edges)

\* the nodes one edge away from S, S included, whatever the edge direction
Neighbours(G, S) ==
    S \cup { n \in DOMAIN G.nodes :
                \E key \in DOMAIN G.edges :
                    \/ Ends(key)[1] \in S /\ Ends(key)[2] = n
                    \/ Ends(key)[2] \in S /\ Ends(key)[1] = n }

RECURSIVE Reached(_, _)
Reached(G, S) ==
    IF Neighbours(G, S) = S THEN S ELSE Reached(G, Neighbours(G, S))

\* nx.is_weakly_connected(G) for a DiGraph, nx.is_connected(G) for a Graph,
\* on a graph with a node
is_connected(G) ==
    Reached(G, { CHOOSE n \in DOMAIN G.nodes : TRUE }) = DOMAIN G.nodes

\* nx.density(G) as << numerator, denominator >>: m / (n (n - 1)) for a
\* DiGraph, 2 m / (n (n - 1)) for a Graph, 0 with fewer than two nodes
density(G) ==
    LET n == number_of_nodes(G)
        m == number_of_edges(G)
    IN  IF n <= 1 THEN << 0, 1 >>
        ELSE << IF G.directed THEN m ELSE 2 * m, n * ( n - 1 ) >>

\* the dictionary get_graph_statistics fills; avg_degree as
\* << sum(degrees), len(degrees) >>
Statistics(G) ==
    LET degrees == { node_degree(G, n) : n \in DOMAIN G.nodes }
        RECURSIVE Total(_)
        Total(ns) == IF ns = {} THEN 0
                     ELSE LET n == CHOOSE x \in ns : TRUE
                          IN  node_degree(G, n) + Total(ns \ { n })
    IN  [ node_count |-> number_of_nodes(G),
          edge_count |-> number_of_edges(G),
          density |-> density(G),
          is_connected |-> is_connected(G),
          avg_degree |-> << Total(DOMAIN G.nodes), number_of_nodes(G) >>,
          max_degree |-> CHOOSE d \in degrees : \A e \in degrees : e <= d,
          min_degree |-> CHOOSE d \in degrees : \A e \in degrees : d <= e ]

\* not G: G is None, or a NetworkX graph with no node (its len is 0)
NotG(G) == G = NoneFound \/ number_of_nodes(G) = 0

get_graph_statistics(store, graph_id) ==
    LET G == get_graph(store, graph_id)
    IN  IF NotG(G) THEN NoneFound ELSE Statistics(G)

\* list(self._graphs.keys())
list_graphs(store) == [ k \in DOMAIN store |-> store[k].id ]

\* a create_graph that writes the store before it has checked anything: the
\* graph built so far is stored under graph_id even when the call raises
CreateThenCheck(store, graph_id, node_list, edge_list, is_directed) ==
    LET built == BuildGraph(node_list, edge_list, is_directed)
        others == SelectSeq(store, LAMBDA e : e.id # graph_id)
    IN  IF graph_exists(store, graph_id) \/ built.error # ""
        THEN [ store |-> Append(others, Entry(graph_id, built.graph)),
               value |-> None, error |-> "ValueError" ]
        ELSE [ store |-> Append(store, Entry(graph_id, built.graph)),
               value |-> built.graph, error |-> "" ]

\* create_graph: [store, value, error] after the call
create_graph(store, graph_id, node_list, edge_list, is_directed) ==
    LET built == BuildGraph(node_list, edge_list, is_directed)
    IN  IF graph_exists(store, graph_id) \/ built.error # ""
        THEN [ store |-> store, value |-> None, error |-> "ValueError" ]
        ELSE [ store |-> Append(store, Entry(graph_id, built.graph)),
               value |-> built.graph, error |-> "" ]

\* a delete_graph that answers but removes nothing
DeleteWithoutRemoving(store, graph_id) ==
    [ store |-> store, value |-> graph_exists(store, graph_id), error |-> "" ]

\* delete_graph: [store, value, error] after the call
delete_graph(store, graph_id) ==
    IF graph_exists(store, graph_id)
    THEN [ store |-> SelectSeq(store, LAMBDA e : e.id # graph_id),
           value |-> TRUE, error |-> "" ]
    ELSE [ store |-> store, value |-> FALSE, error |-> "" ]

-----------------------------------------------------------------------------
(* Inputs *)

SeqsUpTo(S, n) == UNION { [ 1..k -> S ] : k \in 0..n }

\* lists of distinct objects
ListsUpTo(S, n) ==
    { s \in SeqsUpTo(S, n) : \A i, j \in DOMAIN s : i # j => s[i] # s[j] }

\* concepts passed to build_hierarchy_and_connectivity
BuildPool ==
    { Concept("A", "", 90, << 1, 0 >>),
      Concept("B", "", 30, << 1, 1 >>),
      Concept("C", "", 30, << -1, 0 >>),
      Concept("D", "", 30, << -1, 1 >>),
      Concept("A", "", 30, NoEmbedding),
      Concept("B", "", 90, NoEmbedding) }

Extracted(source, target, type) ==
    Relationship(source, target, type, Hundredths(90), "", FALSE)

\* relationships passed to build_hierarchy_and_connectivity
BuildRelPool ==
    { Extracted("A", "B", "related-to"),
      Extracted("B", "A", "uses"),
      Extracted("A", "C", "causes"),
      Extracted("B", "D", "part-of"),
      Extracted("C", "D", "is-a"),
      Extracted("A", "A", "related-to") }

\* concepts passed to _merge_dupes_by_embedding
DedupPool ==
    { Concept("Machine Learning", "d1", 90, << 1, 0 >>),
      Concept("ML Basics", "d2", 60, << 3, 1 >>),
      Concept("Deep Learning", "d3", 50, << 1, 1 >>),
      Concept("Noise", "dz", 30, << 0, 0 >>),
      Concept("ML Basics", "d2", 60, NoEmbedding),
      Concept("Neural Network", "d5", 50, << 1, 0, 0, 0, 0 >>),
      Concept("Neural Net", "d6", 40, << 87, 49, 5, 2, 1 >>) }

\* the embeddings of one list come from one model: one dimension
OneDimension(cs) ==
    \A i, j \in DOMAIN cs :
        ( HasEmbedding(cs[i]) /\ HasEmbedding(cs[j]) )
            => Len(cs[i].embedding) = Len(cs[j].embedding)

\* the graph ids passed to the GraphService
GraphIds == { "g1", "g2" }

\* node dictionaries passed to create_graph
NodePool ==
    { [ id |-> "a", label |-> "A" ],
      [ id |-> "b", label |-> "B" ],
      [ id |-> "a", label |-> "A again" ],
      [ id |-> None, label |-> "no id" ] }

\* edge dictionaries passed to create_graph
EdgePool ==
    { [ source |-> "a", target |-> "b", type |-> "uses" ],
      [ source |-> "b", target |-> "a", type |-> "is-a" ],
      [ source |-> "a", target |-> None, type |-> "uses" ] }

\* a store that an earlier create_graph('g1', [a, b], [a -> b]) has filled
Seeded ==
    create_graph(<< >>, "g1",
                 << [ id |-> "a", label |-> "A" ], [ id |-> "b", label |-> "B" ] >>,
                 << [ source |-> "a", target |-> "b", type |-> "uses" ] >>,
                 TRUE).store

NoReply == [ op |-> "", id |-> None, value |-> None, error |-> "",
             before |-> << >> ]

\* a GraphService just constructed, no call made
StoreIdle ==
    /\ graphs = << >>
    /\ nodes = << >>
    /\ edges = << >>
    /\ directed = TRUE
    /\ reply = NoReply

NoText == [ len |-> 0, periods |-> {}, spaces |-> {} ]

Idle ==
    /\ groups = << >>
    /\ runs = 0
    /\ text = NoText
    /\ chunks = << >>
    /\ chunkIdx = 0
    /\ flags = [ extract_rels |-> TRUE, generate_embeddings |-> TRUE ]
    /\ calls = << >>
    /\ error = ""

-----------------------------------------------------------------------------
(* A call of build_hierarchy_and_connectivity on any inputs *)

InitBuild ==
    /\ pc = "build"
    /\ concepts \in ListsUpTo(BuildPool, MaxConcepts)
    /\ relationships \in SeqsUpTo(BuildRelPool, MaxRels)
    /\ inConcepts = concepts
    /\ inRels = relationships
    /\ Idle
    /\ StoreIdle

build_hierarchy_and_connectivity ==
    /\ pc = "build"
    /\ \E r \in BuildResults(concepts, relationships) :
           /\ concepts' = r.concepts
           /\ relationships' = r.relationships
    /\ pc' = "built"
    /\ UNCHANGED << inConcepts, inRels, groups, runs, text, chunks, chunkIdx,
                    flags, calls, error, storeVars >>

NextBuild == build_hierarchy_and_connectivity

SpecBuild == InitBuild /\ [][NextBuild]_vars

-----------------------------------------------------------------------------
(* Calls of _merge_dupes_by_embedding, the second on the output of the first *)

InitDedup ==
    /\ pc = "merge"
    /\ concepts \in { cs \in ListsUpTo(DedupPool, MaxConcepts) : OneDimension(cs) }
    /\ relationships = << >>
    /\ inConcepts = concepts
    /\ inRels = << >>
    /\ Idle
    /\ StoreIdle

\* the call returns: embeddings generated when one is missing, then the merge
MergeDupes ==
    /\ pc = "merge"
    /\ runs < 2
    /\ LET cs == IF NeedEmbed(concepts) THEN EmbedAll(concepts) ELSE concepts
       IN  /\ inConcepts' = cs
           /\ groups' = Append(groups, IF cs = << >> THEN << >>
                                        ELSE GroupRecords(cs, SimThresh))
           /\ concepts' = IF cs = << >> THEN cs
                          ELSE merge_dupes_by_embedding(cs, SimThresh)
    /\ runs' = runs + 1
    /\ UNCHANGED << pc, relationships, inRels, text, chunks, chunkIdx, flags,
                    calls, error, storeVars >>

\* generate_embeddings_batch raises: the call raises
MergeDupesEmbedFails ==
    /\ pc = "merge"
    /\ runs < 2
    /\ concepts # << >>
    /\ NeedEmbed(concepts)
    /\ pc' = "raised"
    /\ error' = "Exception"
    /\ UNCHANGED << concepts, relationships, inConcepts, inRels, groups, runs,
                    text, chunks, chunkIdx, flags, calls, storeVars >>

NextDedup == MergeDupes \/ MergeDupesEmbedFails

SpecDedup == InitDedup /\ [][NextDedup]_vars

-----------------------------------------------------------------------------
(* Calls on one GraphService: create_graph with the node list, edge list and
   directed flag drawn at the start, and the store operations, on any ids in
   any order.  The service starts empty, or holding one graph that a
   create_graph call with other lists has stored. *)

InitStore ==
    /\ pc = "store"
    /\ concepts = << >>
    /\ relationships = << >>
    /\ inConcepts = << >>
    /\ inRels = << >>
    /\ Idle
    /\ graphs \in { << >>, Seeded }
    /\ nodes \in SeqsUpTo(NodePool, MaxNodes)
    /\ edges \in SeqsUpTo(EdgePool, MaxEdges)
    /\ directed \in BOOLEAN
    /\ reply = NoReply

\* the call returns (or raises): the store it leaves and what the caller gets
Returns(op, graph_id, after) ==
    /\ pc = "store"
    /\ graphs' = after.store
    /\ reply' = [ op |-> op, id |-> graph_id, value |-> after.value,
                  error |-> after.error, before |-> graphs ]
    /\ UNCHANGED << nodes, edges, directed, pipelineVars >>

\* a call that only reads the store
Answers(op, graph_id, value) ==
    Returns(op, graph_id, [ store |-> graphs, value |-> value, error |-> "" ])

CreateGraph(graph_id) ==
    Returns("create_graph", graph_id,
            create_graph(graphs, graph_id, nodes, edges, directed))

DeleteGraph(graph_id) ==
    Returns("delete_graph", graph_id, delete_graph(graphs, graph_id))

GetGraph(graph_id) ==
    Answers("get_graph", graph_id, get_graph(graphs, graph_id))

GetGraphMetadata(graph_id) ==
    Answers("get_graph_metadata", graph_id, get_graph_metadata(graphs, graph_id))

GraphExists(graph_id) ==
    Answers("graph_exists", graph_id, graph_exists(graphs, graph_id))

GetGraphStatistics(graph_id) ==
    Answers("get_graph_statistics", graph_id,
            get_graph_statistics(graphs, graph_id))

ListGraphs == Answers("list_graphs", None, list_graphs(graphs))

NextStore ==
    \/ \E graph_id \in GraphIds : CreateGraph(graph_id)
    \/ \E graph_id \in GraphIds : DeleteGraph(graph_id)
    \/ \E graph_id \in GraphIds : GetGraph(graph_id)
    \/ \E graph_id \in GraphIds : GetGraphMetadata(graph_id)
    \/ \E graph_id \in GraphIds : GraphExists(graph_id)
    \/ \E graph_id \in GraphIds : GetGraphStatistics(graph_id)
    \/ ListGraphs

SpecStore == InitStore /\ [][NextStore]_vars

-----------------------------------------------------------------------------
(* Texts: [len, periods, spaces], the positions 0..len-1 that hold a '.' and
   those that hold white space; every other position holds a letter. *)

Min2(a, b) == IF a <= b THEN a ELSE b

Max2(a, b) == IF a >= b THEN a ELSE b

SetMax(S) == CHOOSE x \in S : \A y \in S : y <= x

SetMin(S) == CHOOSE x \in S : \A y \in S : x <= y

\* text[a:b]
SubText(t, a, b) ==
    [ len |-> IF b > a THEN b - a ELSE 0,
      periods |-> { p - a : p \in { q \in t.periods : q >= a /\ q < b } },
      spaces |-> { p - a : p \in { q \in t.spaces : q >= a /\ q < b } } ]

\* text[a:b].strip()
StripSlice(t, a, b) ==
    LET inked == { p \in a..(b - 1) : p \notin t.spaces }
    IN  IF inked = {} THEN SubText(t, a, a)
        ELSE SubText(t, SetMin(inked), SetMax(inked) + 1)

\* not text.strip(): no character but white space
Blank(t) == \A p \in 0..(t.len - 1) : p \in t.spaces

MinTextLen == 100

MaxTextLen == 50000

\* the length checks made before the emptiness check
ValidateLengthFirst(t) ==
    IF t.len < MinTextLen THEN "Text must be at least 100 characters"
    ELSE IF t.len > MaxTextLen THEN "Text cannot exceed 50,000 characters"
    ELSE IF t.len = 0 \/ Blank(t) THEN "Text cannot be empty"
    ELSE ""

\* validate_text_input: "" when valid, else the message of the first check
\* that fails
validate_text_input(t) ==
    IF t.len = 0 \/ Blank(t) THEN "Text cannot be empty"
    ELSE IF t.len < MinTextLen THEN "Text must be at least 100 characters"
    ELSE IF t.len > MaxTextLen THEN "Text cannot exceed 50,000 characters"
    ELSE ""

\* text.rfind('.', start, end)
Rfind(t, start, end) ==
    LET found == { p \in t.periods : p >= start /\ p < end }
    IN  IF found = {} THEN -1 ELSE SetMax(found)

ChunkTarget == 1800

ChunkOverlap == 200

MinProgress == 200

MinChunkLen == 200

\* the while loop of _chunk: the slices << start, cut >> it takes, from
\* start on
RECURSIVE Spans(_, _, _, _)
Spans(t, start, target, overlap) ==
    IF start >= t.len THEN << >>
    ELSE LET end == Min2(t.len, start + target)
             found == Rfind(t, start, end)
             cut == IF found = -1 \/ found <= start + MinProgress
                    THEN end ELSE found
         IN  << << start, cut >> >>
             \o Spans(t, Max2(cut - overlap, cut), target, overlap)

\* chunks.append(text[start:cut].strip()) for every slice
Windows(t, start, target, overlap) ==
    LET spans == Spans(t, start, target, overlap)
    IN  [ k \in DOMAIN spans |-> StripSlice(t, spans[k][1], spans[k][2]) ]

\* a _chunk that returns every window
ChunkKeepingAll(t, target, overlap) == Windows(t, 0, target, overlap)

\* a _chunk that returns the chunks last to first
ChunkReversed(t, target, overlap) ==
    LET kept == SelectSeq(Windows(t, 0, target, overlap),
                          LAMBDA c : c.len > MinChunkLen)
    IN  [ k \in DOMAIN kept |-> kept[Len(kept) + 1 - k] ]

\* _chunk: only the chunks longer than 200 characters
chunk(t, target, overlap) ==
    SelectSeq(Windows(t, 0, target, overlap), LAMBDA c : c.len > MinChunkLen)

BypassLen == 3000

\* Step 1 without the 'if not chunks' fallback
ChunksWithoutFallback(t) ==
    IF t.len < BypassLen THEN << t >> ELSE chunk(t, ChunkTarget, ChunkOverlap)

\* Step 1 of process_text
ChunksOf(t) ==
    IF t.len < BypassLen THEN << t >>
    ELSE IF chunk(t, ChunkTarget, ChunkOverlap) = << >> THEN << t >>
         ELSE chunk(t, ChunkTarget, ChunkOverlap)

Letters(n) == [ len |-> n, periods |-> {}, spaces |-> {} ]

\* the texts passed to process_text
TextPool ==
    { Letters(0),
      [ len |-> 150, periods |-> {}, spaces |-> 0..149 ],
      Letters(99),
      Letters(100),
      [ len |-> 300, periods |-> {}, spaces |-> { 0, 299 } ],
      Letters(1900),
      [ len |-> 3000, periods |-> { 1700 }, spaces |-> {} ],
      [ len |-> 3000, periods |-> {}, spaces |-> 150..2999 ],
      [ len |-> 3700, periods |-> { 100, 1750 }, spaces |-> { 1751 } ],
      Letters(50001) }

-----------------------------------------------------------------------------
(* The external calls of process_text and what they can answer *)

\* concepts an extract_concepts call can return (no embedding, no tier)
ExtractPool ==
    { Concept("Machine Learning", "d1", 90, NoEmbedding),
      Concept("ML Basics", "d2", 60, NoEmbedding),
      Concept("Machine Learning", "d3", 40, NoEmbedding),
      Concept("Graph", "d4", 30, NoEmbedding) }

\* relationships a relationship-extraction reply can hold
ReplyPool ==
    { Extracted("Machine Learning", "ML Basics", "related-to"),
      Extracted("Machine Learning", "Graph", "uses"),
      Extracted("Graph", "Graph", "related-to"),
      Extracted("Graph", "Neural Network", "is-a") }

Call(fn, outcome) == [ fn |-> fn, outcome |-> outcome ]

\* what one relationship-extraction call can do: answer a list, raise, or
\* answer text that is no JSON
BatchOutcomes ==
    { [ kind |-> "ok", rels |-> r ] : r \in SeqsUpTo(ReplyPool, MaxReply) }
    \cup { [ kind |-> "fail", rels |-> << >> ],
           [ kind |-> "unparseable", rels |-> << >> ] }

-----------------------------------------------------------------------------
(* extract_relationships_all *)

BatchSize == 60

\* all_names = [c.get('name', '') for c in concepts if c.get('name')]
AllNames(cs) ==
    LET named == SelectSeq(cs, LAMBDA c : c.name # "")
    IN  [ i \in DOMAIN named |-> named[i].name ]

\* _batch: the number of slices of `size` items
BatchCount(items, size) == (Len(items) + size - 1) \div size

\* a sanity check that forgets s != t
KeepEndpointsOnly(names, rels) ==
    SelectSeq(rels, LAMBDA r :
        r.source \in SeqRange(names) /\ r.target \in SeqRange(names))

\* the sanity check: only edges whose endpoints exist, and no self-loop
Keep(names, rels) ==
    SelectSeq(rels, LAMBDA r :
        /\ r.source \in SeqRange(names)
        /\ r.target \in SeqRange(names)
        /\ r.source # r.target)

\* what one batch adds to `relationships`: the kept edges of its reply, and
\* nothing when the call raised or the reply did not parse (both handlers
\* print and go on)
BatchKept(names, outcome) ==
    IF outcome.kind = "ok" THEN Keep(names, outcome.rels) ELSE << >>

\* a handler that re-raises
BatchFailureRaised(outcome) ==
    IF outcome.kind = "ok" THEN "" ELSE "Exception"

\* the exception a batch lets escape from the loop: none
BatchError(outcome) == ""

RECURSIVE Collected(_, _, _)
Collected(names, outcomes, b) ==
    IF b > Len(outcomes) THEN << >>
    ELSE BatchKept(names, outcomes[b]) \o Collected(names, outcomes, b + 1)

EdgeKey(r) == << r.source, r.target, r.type >>

\* deduplicate edges by (source, target, type), keeping the first of each
RECURSIVE Unique(_, _, _)
Unique(rels, k, seen) ==
    IF k > Len(rels) THEN << >>
    ELSE IF EdgeKey(rels[k]) \in seen
         THEN Unique(rels, k + 1, seen)
         ELSE << rels[k] >> \o Unique(rels, k + 1, seen \cup { EdgeKey(rels[k]) })

\* the first exception that escapes the batch loop, "" when none does
RECURSIVE EscapedError(_, _)
EscapedError(outcomes, b) ==
    IF b > Len(outcomes) THEN ""
    ELSE IF BatchError(outcomes[b]) # "" THEN BatchError(outcomes[b])
         ELSE EscapedError(outcomes, b + 1)

\* what the function returns for the given outcomes of its calls
extract_relationships_all(cs, outcomes) ==
    Unique(Collected(AllNames(cs), outcomes, 1), 1, {})

-----------------------------------------------------------------------------
(* process_text *)

\* the exact-name fallback of Step 3
RECURSIVE UniqueByName(_, _, _)
UniqueByName(cs, i, seen_names) ==
    IF i > Len(cs) THEN << >>
    ELSE IF cs[i].name # "" /\ cs[i].name \notin seen_names
         THEN << cs[i] >> \o UniqueByName(cs, i + 1, seen_names \cup { cs[i].name })
         ELSE UniqueByName(cs, i + 1, seen_names)

Init ==
    /\ pc = "validate"
    /\ text \in TextPool
    /\ flags \in [ extract_rels : BOOLEAN, generate_embeddings : BOOLEAN ]
    /\ concepts = << >>
    /\ relationships = << >>
    /\ inConcepts = << >>
    /\ inRels = << >>
    /\ groups = << >>
    /\ runs = 0
    /\ chunks = << >>
    /\ chunkIdx = 0
    /\ calls = << >>
    /\ error = ""
    /\ StoreIdle

Raise(kind) ==
    /\ pc' = "raised"
    /\ error' = kind

\* lines 836-839: the text is rejected
RejectText ==
    /\ pc = "validate"
    /\ validate_text_input(text) # ""
    /\ Raise("ValueError")
    /\ UNCHANGED << concepts, relationships, inConcepts, inRels, groups, runs,
                    text, chunks, chunkIdx, flags, calls, storeVars >>

\* chunking with no validation before it
ChunkAnyText ==
    /\ pc = "validate"
    /\ chunks' = ChunksOf(text)
    /\ pc' = "extract"
    /\ UNCHANGED << concepts, relationships, inConcepts, inRels, groups, runs,
                    text, chunkIdx, flags, calls, error, storeVars >>

\* lines 836-848: the text is accepted and chunked
ChunkText ==
    /\ pc = "validate"
    /\ validate_text_input(text) = ""
    /\ chunks' = ChunksOf(text)
    /\ pc' = "extract"
    /\ UNCHANGED << concepts, relationships, inConcepts, inRels, groups, runs,
                    text, chunkIdx, flags, calls, error, storeVars >>

AfterChunk(done) == IF done = Len(chunks) THEN "dedup" ELSE "extract"

\* lines 854-858: extract_concepts returns the concepts of the next chunk
ExtractConcepts ==
    /\ pc = "extract"
    /\ chunkIdx < Len(chunks)
    /\ validate_text_input(chunks[chunkIdx + 1]) = ""
    /\ \E found \in SeqsUpTo(ExtractPool, MaxExtracted - Len(concepts)) :
           concepts' = concepts \o found
    /\ chunkIdx' = chunkIdx + 1
    /\ calls' = Append(calls, Call("extract_concepts", "ok"))
    /\ pc' = AfterChunk(chunkIdx + 1)
    /\ UNCHANGED << relationships, inConcepts, inRels, groups, runs, text,
                    chunks, flags, error, storeVars >>

\* extract_concepts raises: ValueError when it rejects the chunk (lines
\* 184-187, before any call), else the call or the parse of its answer
\* fails (lines 261-267)
ExtractConceptsRaises ==
    /\ pc = "extract"
    /\ chunkIdx < Len(chunks)
    /\ IF validate_text_input(chunks[chunkIdx + 1]) # ""
       THEN /\ Raise("ValueError")
            /\ UNCHANGED calls
       ELSE /\ Raise("Exception")
            /\ calls' = Append(calls, Call("extract_concepts", "fail"))
    /\ UNCHANGED << concepts, relationships, inConcepts, inRels, groups, runs,
                    text, chunks, chunkIdx, flags, storeVars >>

\* lines 862-866: embeddings are generated and the duplicates merged
DedupByEmbedding ==
    /\ pc = "dedup"
    /\ flags.generate_embeddings /\ concepts # << >>
    /\ LET cs == IF NeedEmbed(concepts) THEN EmbedAll(concepts) ELSE concepts
       IN  /\ inConcepts' = cs
           /\ groups' = Append(groups, GroupRecords(cs, SimThresh))
           /\ concepts' = merge_dupes_by_embedding(cs, SimThresh)
    /\ runs' = runs + 1
    /\ calls' = IF NeedEmbed(concepts)
                THEN Append(calls, Call("embed", "ok")) ELSE calls
    /\ pc' = "rels"
    /\ UNCHANGED << relationships, inRels, text, chunks, chunkIdx, flags, error,
                    storeVars >>

\* lines 292-295 and 519-520: generate_embeddings_batch raises, and neither
\* _merge_dupes_by_embedding nor process_text catches it
DedupEmbeddingFails ==
    /\ pc = "dedup"
    /\ flags.generate_embeddings /\ concepts # << >>
    /\ NeedEmbed(concepts)
    /\ calls' = Append(calls, Call("embed", "fail"))
    /\ Raise("Exception")
    /\ UNCHANGED << concepts, relationships, inConcepts, inRels, groups, runs,
                    text, chunks, chunkIdx, flags, storeVars >>

\* lines 867-876: the exact-name fallback
DedupByName ==
    /\ pc = "dedup"
    /\ ~( flags.generate_embeddings /\ concepts # << >> )
    /\ inConcepts' = concepts
    /\ concepts' = UniqueByName(concepts, 1, {})
    /\ pc' = "rels"
    /\ UNCHANGED << relationships, inRels, groups, runs, text, chunks,
                    chunkIdx, flags, calls, error, storeVars >>

RelCalls(outcomes) ==
    [ b \in DOMAIN outcomes |-> Call("extract_relationships", outcomes[b].kind) ]

\* lines 879-887: Step 4, one call per batch of names
ExtractRelationships ==
    /\ pc = "rels"
    /\ flags.extract_rels /\ concepts # << >>
    /\ \E outcomes \in [ 1..BatchCount(AllNames(concepts), BatchSize)
                            -> BatchOutcomes ] :
           /\ calls' = calls \o RelCalls(outcomes)
           /\ IF EscapedError(outcomes, 1) # ""
              THEN /\ Raise(EscapedError(outcomes, 1))
                   /\ UNCHANGED relationships
              ELSE /\ relationships' = extract_relationships_all(concepts, outcomes)
                   /\ pc' = "build"
                   /\ UNCHANGED error
    /\ UNCHANGED << concepts, inConcepts, inRels, groups, runs, text, chunks,
                    chunkIdx, flags, storeVars >>

\* lines 879-880: no relationship extraction
SkipRelationships ==
    /\ pc = "rels"
    /\ ~( flags.extract_rels /\ concepts # << >> )
    /\ pc' = "build"
    /\ UNCHANGED << concepts, relationships, inConcepts, inRels, groups, runs,
                    text, chunks, chunkIdx, flags, calls, error, storeVars >>

\* lines 891-923: Step 5, then the response is returned
BuildAndReturn ==
    /\ pc = "build"
    /\ inConcepts' = concepts
    /\ inRels' = relationships
    /\ \E r \in BuildResults(concepts, relationships) :
           /\ concepts' = r.concepts
           /\ relationships' = r.relationships
    /\ pc' = "done"
    /\ UNCHANGED << groups, runs, text, chunks, chunkIdx, flags, calls, error,
                    storeVars >>

Next ==
    \/ RejectText
    \/ ChunkText
    \/ ExtractConcepts
    \/ ExtractConceptsRaises
    \/ DedupByEmbedding
    \/ DedupEmbeddingFails
    \/ DedupByName
    \/ ExtractRelationships
    \/ SkipRelationships
    \/ BuildAndReturn

Spec == Init /\ [][Next]_vars

-----------------------------------------------------------------------------
(* Graph vocabulary of the properties *)

\* the names an undirected path over rels joins to the names of S
RECURSIVE Joined(_, _, _)
Joined(names, rels, S) ==
    LET more == { m \in names :
                    \E n \in S, k \in DOMAIN rels :
                        { rels[k].source, rels[k].target } = { n, m } }
    IN  IF more \subseteq S THEN S ELSE Joined(names, rels, S \cup more)

\* the connected components of the undirected graph rels draws over names
GraphComponents(names, rels) == { Joined(names, rels, { n }) : n \in names }

NonDegenerate(c) == HasEmbedding(c) /\ Dot(c.embedding, c.embedding) # 0

\* the relationships build_hierarchy_and_connectivity added
Added == SubSeq(relationships, Len(inRels) + 1, Len(relationships))

Built == pc = "built"

-----------------------------------------------------------------------------
(* C1: when at least 2 concepts are passed and every one carries a
   non-degenerate embedding, the returned relationships, read as an
   undirected graph over the concept names, have exactly one connected
   component, whatever relationship list was passed. *)
C1_SingleComponent ==
    ( /\ Built
      /\ Len(inConcepts) >= 2
      /\ \A i \in DOMAIN inConcepts : NonDegenerate(inConcepts[i]) )
    => Cardinality(GraphComponents(NamesOf(concepts), relationships)) = 1

\* a disconnected input with embeddings everywhere has been built
C1_Witness ==
    /\ Built
    /\ Len(inConcepts) >= 3
    /\ \A i \in DOMAIN inConcepts : NonDegenerate(inConcepts[i])
    /\ Cardinality(GraphComponents(NamesOf(inConcepts), inRels)) = 3
    /\ Cardinality(GraphComponents(NamesOf(concepts), relationships)) = 1

(* C2: for a non-empty concept list, at least one returned concept has
   tier 1; when the importance/connections rule marks none, the one
   concept promoted is one of highest importance. *)
C2_TierFloor ==
    ( Built /\ inConcepts # << >> )
    => /\ \E i \in DOMAIN concepts : concepts[i].tier = 1
       /\ ( \A i \in DOMAIN concepts :
                ~( concepts[i].importance > 70 \/ concepts[i].connections >= 2 ) )
          => \E i \in DOMAIN concepts :
                 /\ concepts[i].tier = 1
                 /\ \A j \in DOMAIN concepts :
                        /\ concepts[j].importance <= concepts[i].importance
                        /\ j # i => concepts[j].tier = 2

\* two or more concepts, none marked by the rule, one promoted
C2_Witness ==
    /\ Built
    /\ Len(concepts) >= 2
    /\ \A i \in DOMAIN concepts :
           ~( concepts[i].importance > 70 \/ concepts[i].connections >= 2 )
    /\ \E i \in DOMAIN concepts : concepts[i].tier = 1

(* C3: when the passed relationships split the concept names into k > 1
   components, exactly k-1 relationships are added, all inferred, each
   from a different non-main component to one largest component; when
   k = 1 nothing is added. *)
C3_Bridges ==
    Built =>
      LET comps == GraphComponents(NamesOf(inConcepts), inRels)
          k == Cardinality(comps)
      IN  /\ k <= 1 => Added = << >>
          /\ k > 1 =>
               /\ Len(Added) = k - 1
               /\ \A e \in DOMAIN Added : Added[e].inferred
               /\ \E main \in comps :
                     /\ \A c \in comps : Cardinality(c) <= Cardinality(main)
                     /\ \A e \in DOMAIN Added :
                            /\ Added[e].target \in main
                            /\ Added[e].source \in NamesOf(inConcepts) \ main
                     /\ \A e, f \in DOMAIN Added :
                            e # f => Added[f].source
                                       \notin Joined(NamesOf(inConcepts), inRels,
                                                     { Added[e].source })

\* A-B and C-D only: one inferred relationship joins {C, D} to {A, B}
C3_Witness ==
    /\ Built
    /\ NamesOf(inConcepts) = { "A", "B", "C", "D" }
    /\ inRels = << Extracted("A", "B", "related-to"), Extracted("C", "D", "is-a") >>
    /\ Len(Added) = 1
    /\ Added[1].inferred
    /\ Added[1].source \in { "C", "D" }
    /\ Added[1].target \in { "A", "B" }

-----------------------------------------------------------------------------
(* Vocabulary of the Deduplicator's properties *)

\* a run has returned; inConcepts is its input, concepts its output
Merged == pc = "merge" /\ runs >= 1

LastGroups == groups[runs]

MemberNames(cs, g, except) == { cs[m].name : m \in SeqRange(g.members) \ { except } }

(* C4: in a run on concepts that carry no aliases yet, every input concept
   is in exactly one group, the output holds one concept per group, and it
   is a member of highest importance with exactly the names of the other
   members as aliases. *)
C4_Canonical ==
    ( Merged /\ \A i \in DOMAIN inConcepts : inConcepts[i].aliases = {} )
    => /\ Len(concepts) = Len(LastGroups)
       /\ \A i \in DOMAIN inConcepts :
              Cardinality({ k \in DOMAIN LastGroups :
                              i \in SeqRange(LastGroups[k].members) }) = 1
       /\ \A k \in DOMAIN LastGroups :
              \E b \in SeqRange(LastGroups[k].members) :
                  /\ \A m \in SeqRange(LastGroups[k].members) :
                         inConcepts[m].importance <= inConcepts[b].importance
                  /\ concepts[k] =
                         [ inConcepts[b] EXCEPT
                               !.aliases = MemberNames(inConcepts, LastGroups[k], b) ]

\* 'Machine Learning' (0.9) and 'ML Basics' (0.6), similarity about 0.95
C4_Witness ==
    /\ Merged
    /\ runs = 1
    /\ Len(inConcepts) = 2
    /\ inConcepts[1].name = "ML Basics" /\ inConcepts[1].importance = 60
    /\ inConcepts[2].name = "Machine Learning" /\ inConcepts[2].importance = 90
    /\ Len(concepts) = 1
    /\ concepts[1].name = "Machine Learning"
    /\ concepts[1].aliases = { "ML Basics" }

(* C5 as claimed: the second run returns the list it was given. *)
C5_Idempotent == ( Merged /\ runs = 2 ) => concepts = inConcepts

(* C5 amended: the second run returns the list it was given whenever, in the
   first run, the canonical concept of every group was the group's anchor. *)
C5_IdempotentWhenAnchorsSurvive ==
    ( /\ Merged
      /\ runs = 2
      /\ \A k \in DOMAIN groups[1] :
             groups[1][k].best = groups[1][k].members[1] )
    => concepts = inConcepts

\* a first run that merged, keeping anchors, followed by a second run
C5_Witness ==
    /\ Merged
    /\ runs = 2
    /\ \A k \in DOMAIN groups[1] : groups[1][k].best = groups[1][k].members[1]
    /\ \E k \in DOMAIN groups[1] : Len(groups[1][k].members) >= 2
    /\ Len(concepts) >= 2
    /\ concepts = inConcepts

(* C6 as claimed: the output is no longer than the input and the canonical
   concepts keep the relative order they have in the input. *)
C6_CanonicalOrder ==
    Merged =>
      /\ Len(concepts) <= Len(inConcepts)
      /\ \A k, l \in DOMAIN LastGroups :
             k < l => LastGroups[k].best < LastGroups[l].best

(* C6 amended: the output is no longer than the input and holds the
   canonical concepts in the input order of their groups' anchors (the
   first member of each group). *)
C6_AnchorOrder ==
    Merged =>
      /\ Len(concepts) <= Len(inConcepts)
      /\ Len(concepts) = Len(LastGroups)
      /\ \A k \in DOMAIN LastGroups :
             /\ concepts[k].name = inConcepts[LastGroups[k].best].name
             /\ concepts[k].importance = inConcepts[LastGroups[k].best].importance
      /\ \A k, l \in DOMAIN LastGroups :
             k < l => LastGroups[k].members[1] < LastGroups[l].members[1]

\* a canonical concept that stands later in the input than the next one
C6_Witness ==
    /\ Merged
    /\ Len(concepts) < Len(inConcepts)
    /\ \E k, l \in DOMAIN LastGroups :
           /\ k < l
           /\ LastGroups[k].best > LastGroups[l].best
           /\ LastGroups[k].members[1] < LastGroups[l].members[1]

-----------------------------------------------------------------------------
(* Vocabulary of the properties of process_text *)

Returned == pc = "done"

Deduplicated == pc \in { "rels", "build", "done" }

Failed(fn) == \E k \in DOMAIN calls : calls[k] = Call(fn, "fail")

\* a relationship-extraction call raised or answered text that did not parse
RelCallFailed ==
    \E k \in DOMAIN calls :
        /\ calls[k].fn = "extract_relationships"
        /\ calls[k].outcome \in { "fail", "unparseable" }

Explicit == SelectSeq(relationships, LAMBDA r : ~r.inferred)

(* C7 as claimed: after the deduplication step of process_text no two
   concepts of the list have the same name. *)
C7_UniqueNames ==
    Deduplicated =>
      \A i, j \in DOMAIN concepts : i # j => concepts[i].name # concepts[j].name

(* C8: in the result of process_text every relationship has source # target
   and both endpoints among the names of the returned concepts, and no two
   relationships have the same (source, target, type). *)
C8_ResultEdges ==
    Returned =>
      /\ \A k \in DOMAIN relationships :
             /\ relationships[k].source # relationships[k].target
             /\ relationships[k].source \in NamesOf(concepts)
             /\ relationships[k].target \in NamesOf(concepts)
      /\ \A k, l \in DOMAIN relationships :
             k # l => EdgeKey(relationships[k]) # EdgeKey(relationships[l])

\* a result with an extracted and a synthesized relationship
C8_Witness ==
    /\ Returned
    /\ Len(concepts) = 3
    /\ Len(Explicit) = 1
    /\ Len(relationships) = 2
    /\ relationships[2].inferred

(* C9 as claimed: when embedding generation fails after concepts were
   extracted, process_text does not fail. *)
C9_EmbeddingFailureTolerated ==
    Failed("embed") => pc # "raised"

-----------------------------------------------------------------------------
(* C11: when validate_text_input rejects the text, process_text raises
   ValueError before chunking and before any external call: the chunk list
   stays empty and no concept-extraction, embedding or
   relationship-extraction call is ever made. *)
C11_RejectedBeforeAnyCall ==
    validate_text_input(text) # "" =>
        /\ pc \in { "validate", "raised" }
        /\ pc = "raised" => error = "ValueError"
        /\ chunks = << >>
        /\ chunkIdx = 0
        /\ calls = << >>
        /\ concepts = << >>

\* a text of 99 letters has been rejected
C11_Witness ==
    /\ pc = "raised"
    /\ error = "ValueError"
    /\ text = Letters(99)
    /\ validate_text_input(text) # ""
    /\ calls = << >>

(* C12: validate_text_input accepts the text (empty message) exactly when
   it holds a character that is not white space and 100 <= len <= 50000;
   otherwise the message names the first violated constraint in the order
   empty, minimum 100, maximum 50,000; process_text goes on exactly when
   the text is accepted. *)
C12_Validation ==
    LET msg == validate_text_input(text)
        inked == \E p \in 0..(text.len - 1) : p \notin text.spaces
    IN  /\ msg = "" <=> ( inked /\ 100 <= text.len /\ text.len <= 50000 )
        /\ ~inked => msg = "Text cannot be empty"
        /\ ( inked /\ text.len < 100 )
               => msg = "Text must be at least 100 characters"
        /\ ( inked /\ text.len >= 100 /\ text.len > 50000 )
               => msg = "Text cannot exceed 50,000 characters"
        /\ pc # "validate" => ( msg = "" <=> chunks # << >> )

\* 150 characters of white space have been rejected as empty
C12_Witness ==
    /\ pc = "raised"
    /\ text.len = 150
    /\ Blank(text)
    /\ validate_text_input(text) = "Text cannot be empty"

-----------------------------------------------------------------------------
(* Vocabulary of the Chunker's properties *)

\* process_text has just chunked the text with _chunk
ChunkedLongText == pc = "extract" /\ chunkIdx = 0 /\ text.len >= BypassLen

\* the slices of _chunk whose stripped text is returned
KeptSpans(t) ==
    SelectSeq(Spans(t, 0, ChunkTarget, ChunkOverlap),
              LAMBDA s : StripSlice(t, s[1], s[2]).len > 200)

\* the slices of _chunk whose stripped text is thrown away
DroppedSpans(t) ==
    SelectSeq(Spans(t, 0, ChunkTarget, ChunkOverlap),
              LAMBDA s : StripSlice(t, s[1], s[2]).len <= 200)

\* the positions the slices hold
Within(spans) == UNION { spans[k][1]..(spans[k][2] - 1) : k \in DOMAIN spans }

\* the positions of t that hold a character other than white space and lie
\* in no returned chunk
Missing(t) == ( ( 0..(t.len - 1) ) \ t.spaces ) \ Within(KeptSpans(t))

(* C13 as claimed: no character of the text other than white space is
   missing from the chunks _chunk returns. *)
C13_Coverage == ChunkedLongText => Missing(text) = {}

(* C13 amended: the slices _chunk takes leave no gap from 0 to len(text);
   the chunks returned are, in order, the stripped slices of more than 200
   characters; so every character missing from them is white space or lies
   in a slice whose stripped text has 200 characters or fewer. *)
C13_CoverageButFragments ==
    ChunkedLongText =>
      LET spans == Spans(text, 0, ChunkTarget, ChunkOverlap)
          kept == KeptSpans(text)
          dropped == DroppedSpans(text)
      IN  /\ spans[1][1] = 0
          /\ spans[Len(spans)][2] = text.len
          /\ \A k \in 1..(Len(spans) - 1) : spans[k + 1][1] <= spans[k][2]
          /\ Missing(text) \subseteq Within(dropped)
          /\ kept # << >> =>
                 chunks = [ k \in DOMAIN kept |->
                              StripSlice(text, kept[k][1], kept[k][2]) ]
          /\ kept = << >> => chunks = << text >>

\* 3700 characters chunked: the last 150 are in no chunk
C13_Witness ==
    /\ ChunkedLongText
    /\ text.len = 3700
    /\ Len(chunks) = 2
    /\ Missing(text) = 3550..3699

(* C14 as claimed: for a valid text shorter than the 3000-character bypass
   threshold on which _chunk yields one chunk, the chunk list of the fast
   path, [text], is the chunk list _chunk yields. *)
C14_FastPathEquivalent ==
    ( /\ pc = "extract"
      /\ chunkIdx = 0
      /\ text.len < BypassLen
      /\ Len(chunk(text, ChunkTarget, ChunkOverlap)) = 1 )
    => chunks = chunk(text, ChunkTarget, ChunkOverlap)

-----------------------------------------------------------------------------
(* C15: build_hierarchy_and_connectivity on an empty concept list returns
   both lists as passed; on exactly one concept it returns that concept
   with tier 1 and connections 0 and the relationship list as passed, no
   relationship added. *)
C15_DegenerateInputs ==
    Built =>
      /\ inConcepts = << >> =>
             concepts = inConcepts /\ relationships = inRels
      /\ Len(inConcepts) = 1 =>
             /\ concepts = << [ inConcepts[1] EXCEPT !.tier = 1,
                                                    !.connections = 0 ] >>
             /\ relationships = inRels

\* one concept A passed with the relationship A -> A
C15_Witness ==
    /\ Built
    /\ Len(inConcepts) = 1
    /\ inRels = << Extracted("A", "A", "related-to") >>
    /\ concepts[1].tier = 1
    /\ concepts[1].connections = 0
    /\ relationships = inRels

(* C18: after build_hierarchy_and_connectivity on at least 2 concepts and
   relationships whose endpoints are concept names, every concept has tier
   1 or 2 and carries as connections the number of times its name is an
   endpoint in the returned relationship list, synthesized relationships
   included; a concept has tier 1 exactly when its importance > 0.7 or its
   connections >= 2, except that when no concept meets the rule exactly one
   concept is promoted to tier 1. *)
C18_TierRule ==
    ( /\ Built
      /\ Len(inConcepts) >= 2
      /\ \A k \in DOMAIN inRels : Counted(inConcepts, inRels[k]) )
    => LET degree(n) ==
               Cardinality({ k \in DOMAIN relationships :
                               relationships[k].source = n })
             + Cardinality({ k \in DOMAIN relationships :
                               relationships[k].target = n })
           core(i) == \/ concepts[i].importance > 70
                      \/ degree(concepts[i].name) >= 2
       IN  /\ \A i \in DOMAIN concepts :
                  /\ concepts[i].tier \in { 1, 2 }
                  /\ concepts[i].connections = degree(concepts[i].name)
           /\ ( \E i \in DOMAIN concepts : core(i) )
                  => \A i \in DOMAIN concepts : concepts[i].tier = 1 <=> core(i)
           /\ ( \A i \in DOMAIN concepts : ~core(i) )
                  => Cardinality({ i \in DOMAIN concepts :
                                     concepts[i].tier = 1 }) = 1

\* a concept of importance 0.3 is tier 1 for its 2 connections, one of
\* them a bridge, next to a concept of tier 2
C18_Witness ==
    /\ Built
    /\ Len(inRels) = 1
    /\ Len(Added) >= 1
    /\ \A k \in DOMAIN inRels : Counted(inConcepts, inRels[k])
    /\ \E i, j \in DOMAIN concepts :
           /\ concepts[i].importance = 30
           /\ concepts[i].connections = 2
           /\ concepts[i].tier = 1
           /\ \E k \in DOMAIN Added :
                  concepts[i].name \in { Added[k].source, Added[k].target }
           /\ concepts[j].tier = 2

(* C19 as claimed: the bridge of each non-main component is a most similar
   pair between that component and the merged topology, that is the main
   component together with the components bridged before it. *)
C19_MergedTopology ==
    ( /\ Built
      /\ Len(inConcepts) >= 2
      /\ Cardinality(NamesOf(inConcepts)) = Len(inConcepts)
      /\ \A i \in DOMAIN inConcepts : HasEmbedding(inConcepts[i]) )
    => \A e \in DOMAIN Added :
           LET names == NamesOf(inConcepts)
               component == Joined(names, inRels, { Added[e].source })
               merged == Joined(names,
                                SubSeq(relationships, 1, Len(inRels) + e - 1),
                                { Added[1].target })
               chosen == PairSimilarity(inConcepts,
                                        << Added[e].source, Added[e].target >>)
           IN  \A p \in component, q \in merged :
                   ValGE(chosen, PairSimilarity(inConcepts, << p, q >>))

(* C20: a run groups greedily by anchor.  The groups are formed in the
   input order of their anchors (the first member of each); a concept j that
   is not an anchor belongs to the group of the earliest anchor i < j with
   cosine similarity to j >= 0.87, the value 0.87 included, whatever its
   similarity to the other members of a group; a concept is an anchor
   exactly when no earlier anchor is that similar to it. *)
C20_GreedyByAnchor ==
    Merged =>
      LET anchor(k) == LastGroups[k].members[1]
          similar(i, j) ==
              /\ HasEmbedding(inConcepts[i]) /\ HasEmbedding(inConcepts[j])
              /\ ValGE(cosine_similarity(inConcepts[i].embedding,
                                         inConcepts[j].embedding),
                       Hundredths(87))
          group(j) == CHOOSE k \in DOMAIN LastGroups :
                          j \in SeqRange(LastGroups[k].members)
      IN  /\ \A k, l \in DOMAIN LastGroups : k < l => anchor(k) < anchor(l)
          /\ \A j \in DOMAIN inConcepts :
                 /\ anchor(group(j)) <= j
                 /\ j # anchor(group(j)) => similar(anchor(group(j)), j)
                 /\ \A k \in DOMAIN LastGroups :
                        ( anchor(k) < j /\ similar(anchor(k), j) )
                            => group(j) <= k

\* input 'Machine Learning', 'ML Basics', 'Deep Learning': the second is
\* similar to the first and to the third, the third is not similar to the
\* first and stays on its own
C20_Witness ==
    /\ Merged
    /\ runs = 1
    /\ Len(inConcepts) = 3
    /\ inConcepts[1].name = "Machine Learning"
    /\ inConcepts[2].name = "ML Basics"
    /\ inConcepts[3].name = "Deep Learning"
    /\ ValGE(cosine_similarity(inConcepts[2].embedding, inConcepts[3].embedding),
             Hundredths(87))
    /\ ~ValGE(cosine_similarity(inConcepts[1].embedding, inConcepts[3].embedding),
              Hundredths(87))
    /\ Len(concepts) = 2
    /\ concepts[1].name = "Machine Learning"
    /\ concepts[1].aliases = { "ML Basics" }
    /\ concepts[2].name = "Deep Learning"
    /\ concepts[2].aliases = {}

-----------------------------------------------------------------------------
(* Vocabulary of the GraphService's properties *)

\* the last call was op and did not raise
Called(op) == reply.op = op /\ reply.error = ""

Listed(store, graph_id) ==
    \E k \in DOMAIN list_graphs(store) : list_graphs(store)[k] = graph_id

(* C16: after a successful create_graph(id) graph_exists(id) is true,
   get_graph(id) and get_graph_metadata(id) return the stored graph and its
   metadata and id is in list_graphs(); delete_graph(id) returns True
   exactly when id was stored, afterwards graph_exists(id) is false and the
   other entries are as before; delete_graph of an id that is not stored
   returns False and leaves the store unchanged; the read calls answer from
   the store. *)
C16_StoreLifecycle ==
    /\ Called("create_graph") =>
           /\ graph_exists(graphs, reply.id)
           /\ get_graph(graphs, reply.id) = reply.value
           /\ get_graph(graphs, reply.id) = BuildGraph(nodes, edges, directed).graph
           /\ get_graph_metadata(graphs, reply.id).graph_id = reply.id
           /\ get_graph_metadata(graphs, reply.id).directed = directed
           /\ Listed(graphs, reply.id)
           /\ \A g \in GraphIds \ { reply.id } :
                  /\ graph_exists(graphs, g) <=> graph_exists(reply.before, g)
                  /\ get_graph(graphs, g) = get_graph(reply.before, g)
    /\ Called("delete_graph") =>
           /\ reply.value <=> graph_exists(reply.before, reply.id)
           /\ ~graph_exists(graphs, reply.id)
           /\ ~Listed(graphs, reply.id)
           /\ ~reply.value => graphs = reply.before
           /\ \A g \in GraphIds \ { reply.id } :
                  /\ graph_exists(graphs, g) <=> graph_exists(reply.before, g)
                  /\ get_graph(graphs, g) = get_graph(reply.before, g)
    /\ Called("graph_exists") =>
           ( reply.value <=> \E k \in DOMAIN graphs : graphs[k].id = reply.id )
    /\ Called("get_graph") =>
           ( reply.value = NoneFound <=> ~graph_exists(graphs, reply.id) )
    /\ Called("get_graph_metadata") =>
           ( reply.value = NoneFound <=> ~graph_exists(graphs, reply.id) )
    /\ Called("list_graphs") =>
           \A g \in GraphIds : Listed(graphs, g) <=> graph_exists(graphs, g)
    /\ \A k, l \in DOMAIN graphs : k # l => graphs[k].id # graphs[l].id

\* one of two stored graphs has been deleted
C16_Witness ==
    /\ Called("delete_graph")
    /\ reply.value
    /\ Len(reply.before) = 2
    /\ Len(graphs) = 1
    /\ graph_exists(reply.before, reply.id)
    /\ ~graph_exists(graphs, reply.id)
    /\ number_of_nodes(graphs[1].graph) = 2

(* C17 as claimed: after a successful create_graph the stored graph has
   len(nodes) nodes and len(edges) edges and the metadata counts are those
   numbers. *)
C17_CountsAreLengths ==
    Called("create_graph") =>
      /\ number_of_nodes(get_graph(graphs, reply.id)) = Len(nodes)
      /\ number_of_edges(get_graph(graphs, reply.id)) = Len(edges)
      /\ get_graph_metadata(graphs, reply.id).node_count = Len(nodes)
      /\ get_graph_metadata(graphs, reply.id).edge_count = Len(edges)

(* C17 amended: after a successful create_graph the stored graph has one
   node per distinct node id and one edge per distinct (source, target)
   pair, taken unordered when the graph is undirected, and the metadata
   node_count and edge_count are those numbers; they are len(nodes) and
   len(edges) when no id and no pair is repeated. *)
C17_CountsOfDistinct ==
    Called("create_graph") =>
      LET G == get_graph(graphs, reply.id)
          metadata == get_graph_metadata(graphs, reply.id)
          ids == { nodes[i].id : i \in DOMAIN nodes }
          pairs == { IF directed
                     THEN << edges[k].source, edges[k].target >>
                     ELSE << { edges[k].source, edges[k].target } >> :
                     k \in DOMAIN edges }
      IN  /\ number_of_nodes(G) = Cardinality(ids)
          /\ number_of_edges(G) = Cardinality(pairs)
          /\ metadata.node_count = Cardinality(ids)
          /\ metadata.edge_count = Cardinality(pairs)
          /\ ( \A i, j \in DOMAIN nodes : i # j => nodes[i].id # nodes[j].id )
                 => metadata.node_count = Len(nodes)
          /\ ( Cardinality(pairs) = Len(edges) )
                 => metadata.edge_count = Len(edges)

\* an undirected graph created from the edges a - b and b - a: one edge
C17_Witness ==
    /\ Called("create_graph")
    /\ ~directed
    /\ Len(nodes) = 2
    /\ Len(edges) = 2
    /\ edges[1] # edges[2]
    /\ get_graph_metadata(graphs, reply.id).node_count = 2
    /\ get_graph_metadata(graphs, reply.id).edge_count = 1

-----------------------------------------------------------------------------
(* C21 as claimed: a run of the Deduplicator leaves the embedding of every
   concept that carried one as it was, whether or not embeddings had to be
   generated for other concepts of the list. *)
C21_EmbeddingsKept ==
    [][ ( pc = "merge" /\ runs' = runs + 1 )
          => \A i \in DOMAIN concepts :
                 HasEmbedding(concepts[i])
                     => inConcepts'[i].embedding = concepts[i].embedding ]_vars

(* C22: the relationship list build_hierarchy_and_connectivity returns
   starts with the relationship list passed, same elements in the same
   order, and holds after it only synthesized (inferred) relationships. *)
C22_AppendOnly ==
    Built =>
      /\ Len(relationships) >= Len(inRels)
      /\ SubSeq(relationships, 1, Len(inRels)) = inRels
      /\ \A k \in DOMAIN relationships :
             k > Len(inRels) =>
                 /\ relationships[k].inferred
                 /\ relationships[k].description
                        \in { "Bridge connection (component merge)",
                              "Bridge connection (fallback)",
                              "Connectivity link" }

\* two relationships passed, returned first and in order, a bridge after them
C22_Witness ==
    /\ Built
    /\ Len(inRels) = 2
    /\ inRels[1] # inRels[2]
    /\ Len(relationships) = 3
    /\ relationships[1] = inRels[1]
    /\ relationships[2] = inRels[2]
    /\ relationships[3].inferred

-----------------------------------------------------------------------------
(* Vocabulary of the properties of the synthesized relationships *)

ValEq(a, b) == ValGE(a, b) /\ ValGE(b, a)

\* the component of the passed graph that holds name n
ComponentOf(n) == Joined(NamesOf(inConcepts), inRels, { n })

\* the embedded pairs between the component of the e-th synthesized
\* relationship and the component it is joined to
PairsOf(e) ==
    EmbeddedPairs(inConcepts, ComponentOf(Added[e].source),
                  ComponentOf(Added[e].target))

MostSimilar(p, pairs) ==
    \A q \in pairs :
        ValGE(PairSimilarity(inConcepts, p), PairSimilarity(inConcepts, q))

(* C23 as claimed: every synthesized relationship has type 'related-to' and
   inferred = true; its strength is max(0.5, 0.8 * similarity) of a most
   similar embedded pair when an embedded pair exists, and 0.6 otherwise;
   so it lies in [0.5, 0.8]. *)
C23_StrengthByPairExistence ==
    ( Built /\ Len(inConcepts) >= 2 ) =>
      \A e \in DOMAIN Added :
          /\ Added[e].type = "related-to"
          /\ Added[e].inferred
          /\ PairsOf(e) # {} =>
                 \E p \in PairsOf(e) :
                     /\ MostSimilar(p, PairsOf(e))
                     /\ ValEq(Added[e].strength,
                              BridgeStrength(PairSimilarity(inConcepts, p)))
          /\ PairsOf(e) = {} => ValEq(Added[e].strength, Hundredths(60))
          /\ ValGE(Added[e].strength, Hundredths(50))
          /\ ValGE(Hundredths(80), Added[e].strength)

(* C23 amended: every synthesized relationship has type 'related-to' and
   inferred = true; when an embedded pair of similarity above -1 exists it
   joins a most similar embedded pair with strength
   max(0.5, 0.8 * similarity); otherwise (no embedded pair, or every
   embedded pair at similarity -1) it joins the concepts of highest
   importance with strength 0.6; so the strength lies in [0.5, 0.8]. *)
C23_StrengthByUsablePair ==
    ( Built /\ Len(inConcepts) >= 2 ) =>
      \A e \in DOMAIN Added :
          LET usable == { p \in PairsOf(e) :
                            ValGT(PairSimilarity(inConcepts, p), MinusOne) }
          IN  /\ Added[e].type = "related-to"
              /\ Added[e].inferred
              /\ usable # {} =>
                     /\ << Added[e].source, Added[e].target >> \in usable
                     /\ MostSimilar(<< Added[e].source, Added[e].target >>,
                                    PairsOf(e))
                     /\ ValEq(Added[e].strength,
                              BridgeStrength(PairSimilarity(inConcepts,
                                  << Added[e].source, Added[e].target >>)))
              /\ usable = {} =>
                     /\ ValEq(Added[e].strength, Hundredths(60))
                     /\ Added[e].description = "Bridge connection (fallback)"
              /\ ValGE(Added[e].strength, Hundredths(50))
              /\ ValGE(Hundredths(80), Added[e].strength)

\* a bridge of strength above 0.5 from a similar pair, and a fallback
\* bridge of strength 0.6 although an embedded pair (at -1) exists
C23_Witness ==
    /\ Built
    /\ \E e, f \in DOMAIN Added :
           /\ Added[e].description = "Bridge connection (component merge)"
           /\ ValGT(Added[e].strength, Hundredths(50))
           /\ Added[f].description = "Bridge connection (fallback)"
           /\ PairsOf(f) # {}
           /\ ValEq(Added[f].strength, Hundredths(60))

-----------------------------------------------------------------------------
(* The windows of _chunk *)

(* C24 as claimed: with overlap > 0, each window of _chunk after the first
   begins overlap characters before the cut that ended the window before
   it, so that consecutive windows share text. *)
C24_WindowsOverlap ==
    ChunkedLongText =>
      LET spans == Spans(text, 0, ChunkTarget, ChunkOverlap)
      IN  \A k \in 1..(Len(spans) - 1) :
              /\ spans[k + 1][1] = spans[k][2] - ChunkOverlap
              /\ spans[k + 1][1] < spans[k][2]

\* process_text has just built the chunk list of a valid text
Chunked == pc = "extract" /\ chunkIdx = 0

\* the targets and overlaps _chunk is tried with
ChunkTargets == { 50, 250, 1800 }

ChunkOverlaps == { 0, 200, 2000 }

\* the first characters of t, a text short enough for _chunk at target 1
HeadLen == 40

Opening(t) == SubText(t, 0, Min2(t.len, HeadLen))

\* the loop of _chunk on t ends after at most len(t) non-empty windows of
\* strictly increasing start, the last one ending at len(t)
Progresses(t, target, overlap) ==
    LET spans == Spans(t, 0, target, overlap)
    IN  /\ Len(spans) >= 1
        /\ Len(spans) <= t.len
        /\ \A k \in DOMAIN spans : spans[k][1] < spans[k][2]
        /\ \A k \in 1..(Len(spans) - 1) : spans[k + 1][1] > spans[k][1]
        /\ spans[Len(spans)][2] = t.len

\* _chunk returns the stripped windows of more than 200 characters in the
\* order of their starts
InTextOrder(t, target, overlap) ==
    LET kept == SelectSeq(Spans(t, 0, target, overlap),
                    LAMBDA s : StripSlice(t, s[1], s[2]).len > MinChunkLen)
    IN  chunk(t, target, overlap)
            = [ k \in DOMAIN kept |-> StripSlice(t, kept[k][1], kept[k][2]) ]

(* C25: for target >= 1 and overlap >= 0 the loop of _chunk ends: every
   window is non-empty, the window start strictly increases, the last
   window ends at len(text), so at most len(text) windows are taken; and
   the chunks returned are the stripped windows of more than 200
   characters in the order of their starts. *)
C25_Terminates ==
    Chunked =>
      /\ \A target \in ChunkTargets, overlap \in ChunkOverlaps :
             /\ Progresses(text, target, overlap)
             /\ InTextOrder(text, target, overlap)
      /\ \A overlap \in ChunkOverlaps :
             /\ Progresses(Opening(text), 1, overlap)
             /\ InTextOrder(Opening(text), 1, overlap)
      /\ ( text.len >= BypassLen /\ KeptSpans(text) # << >> ) =>
             chunks = [ k \in DOMAIN KeptSpans(text) |->
                          StripSlice(text, KeptSpans(text)[k][1],
                                     KeptSpans(text)[k][2]) ]

\* 3700 characters: 74 windows at target 50, as many windows as characters
\* at target 1 on the first 40, and two different chunks returned in text
\* order at the default target
C25_Witness ==
    /\ Chunked
    /\ text.len = 3700
    /\ Len(Spans(text, 0, 50, 0)) = 74
    /\ Len(Spans(Opening(text), 0, 1, 200)) = HeadLen
    /\ Len(chunks) = 2
    /\ chunks[1].len = 1750
    /\ chunks[2].len = 1800

-----------------------------------------------------------------------------
(* The statistics of a stored graph *)

(* C26 as claimed: get_graph_statistics(graph_id) returns None only when no
   graph with that id is stored; for every stored id, the id of a graph
   created with an empty node list included, it returns a statistics
   record. *)
C26_StatisticsForStored ==
    Called("get_graph_statistics") =>
      ( reply.value = NoneFound <=> ~graph_exists(graphs, reply.id) )

-----------------------------------------------------------------------------
(* Connectivity without embeddings *)

DistinctlyNamed(cs) ==
    \A i, j \in DOMAIN cs : i # j => cs[i].name # cs[j].name

\* a largest component of the passed graph that every added relationship
\* points into
MainOf(comps) ==
    { main \in comps :
        /\ \A c \in comps : Cardinality(c) <= Cardinality(main)
        /\ \A e \in DOMAIN Added : Added[e].target \in main }

(* C27: for at least 2 distinctly named concepts and any relationship
   list, with or without embeddings, the returned relationships form a
   single connected component over the concept names: every non-main
   component receives a bridge to the main component, and it is the
   fallback bridge between the concepts of highest importance whenever
   the two components have no embedded pair, as when no concept carries an
   embedding. *)
C27_ConnectedWithoutEmbeddings ==
    ( Built /\ Len(inConcepts) >= 2 /\ DistinctlyNamed(inConcepts) ) =>
      LET comps == GraphComponents(NamesOf(inConcepts), inRels)
      IN  /\ Cardinality(GraphComponents(NamesOf(concepts), relationships)) = 1
          /\ \E main \in MainOf(comps) :
                 \A c \in comps \ { main } :
                     \E e \in DOMAIN Added :
                         /\ Added[e].source \in c
                         /\ EmbeddedPairs(inConcepts, c, main) = {} =>
                                Added[e] = FallbackBridge(inConcepts, c, main)
          /\ ( \A i \in DOMAIN inConcepts : ~HasEmbedding(inConcepts[i]) ) =>
                 \A e \in DOMAIN Added :
                     Added[e].description = "Bridge connection (fallback)"

\* three concepts and no relationship, two of the concepts without an
\* embedding: both bridges are fallback bridges and the result is connected
C27_Witness ==
    /\ Built
    /\ Len(inConcepts) = 3
    /\ DistinctlyNamed(inConcepts)
    /\ inRels = << >>
    /\ Cardinality({ i \in DOMAIN inConcepts : ~HasEmbedding(inConcepts[i]) }) = 2
    /\ Len(Added) = 2
    /\ \A e \in DOMAIN Added :
           Added[e].description = "Bridge connection (fallback)"
    /\ Cardinality(GraphComponents(NamesOf(concepts), relationships)) = 1

(* C28: for at least 2 distinctly named concepts, every returned concept has
   connections >= 1 and no relationship added is a 'Connectivity link': after
   the bridges are counted no concept is isolated, so the isolation sweep
   adds nothing. *)
C28_SweepAddsNothing ==
    ( Built /\ Len(inConcepts) >= 2 /\ DistinctlyNamed(inConcepts) ) =>
      /\ \A i \in DOMAIN concepts : concepts[i].connections >= 1
      /\ \A e \in DOMAIN Added : Added[e].description # "Connectivity link"
      /\ Len(Added)
            = Cardinality(GraphComponents(NamesOf(inConcepts), inRels)) - 1

\* three embedded concepts and no relationship: each would be swept if the
\* bridges were not counted, and each is returned with a connection
C28_Witness ==
    /\ Built
    /\ Len(inConcepts) = 3
    /\ DistinctlyNamed(inConcepts)
    /\ inRels = << >>
    /\ \A i \in DOMAIN inConcepts : NonDegenerate(inConcepts[i])
    /\ \A i \in DOMAIN concepts : concepts[i].connections >= 1
    /\ \E i \in DOMAIN concepts : concepts[i].connections = 2
    /\ Len(Added) = 2

-----------------------------------------------------------------------------
(* The chunks handed to extract_concepts *)

(* C29: for a text validate_text_input accepts, the chunk list of
   process_text is never empty and validate_text_input accepts every chunk
   of it, so that extract_concepts raises no ValueError: a ValueError of
   process_text comes from the validation of the whole text, before any
   chunk exists and before any call. *)
C29_ChunksAreValid ==
    /\ ( pc # "validate" /\ validate_text_input(text) = "" ) =>
           /\ chunks # << >>
           /\ \A k \in DOMAIN chunks : validate_text_input(chunks[k]) = ""
    /\ ( pc = "raised" /\ error = "ValueError" ) =>
           /\ validate_text_input(text) # ""
           /\ chunks = << >>
           /\ calls = << >>

\* 3000 characters of which _chunk keeps nothing: the text itself is the
\* one chunk, and extract_concepts has taken it
C29_Witness ==
    /\ text.len = 3000
    /\ chunk(text, ChunkTarget, ChunkOverlap) = << >>
    /\ chunks = << text >>
    /\ chunkIdx = 1
    /\ calls # << >>
    /\ calls[1] = Call("extract_concepts", "ok")

-----------------------------------------------------------------------------
(* A create_graph that raises *)

\* why create_graph(graph_id, nodes, edges, directed) raises on store
Raises(store, graph_id) ==
    \/ graph_exists(store, graph_id)
    \/ \E k \in DOMAIN nodes : ~Truthy(nodes[k].id)
    \/ \E k \in DOMAIN edges :
           \/ ~Truthy(edges[k].source)
           \/ ~Truthy(edges[k].target)
           \/ \A n \in DOMAIN nodes : nodes[n].id # edges[k].source
           \/ \A n \in DOMAIN nodes : nodes[n].id # edges[k].target

(* C30: a create_graph call raises ValueError exactly when the id is
   already stored, a node has no id, an edge has no source or target, or an
   edge endpoint is no node; the call then leaves the store exactly as it
   was: no new id is visible and the graph and metadata stored under every
   id are those stored before. *)
C30_FailedCreateChangesNothing ==
    reply.op = "create_graph" =>
      /\ reply.error = "ValueError" <=> Raises(reply.before, reply.id)
      /\ reply.error = "ValueError" =>
             /\ graphs = reply.before
             /\ list_graphs(graphs) = list_graphs(reply.before)
             /\ \A id \in GraphIds :
                    /\ graph_exists(graphs, id) <=> graph_exists(reply.before, id)
                    /\ get_graph(graphs, id) = get_graph(reply.before, id)
                    /\ get_graph_metadata(graphs, id)
                          = get_graph_metadata(reply.before, id)

\* g1 is stored; create_graph('g2', ...) with a first node that is fine and
\* a second node without an id has raised; g1 alone is stored, as before
C30_Witness ==
    /\ reply.op = "create_graph"
    /\ reply.error = "ValueError"
    /\ reply.id = "g2"
    /\ Len(nodes) = 2
    /\ Truthy(nodes[1].id)
    /\ ~Truthy(nodes[2].id)
    /\ graphs = Seeded
    /\ list_graphs(graphs) = << "g1" >>

=============================================================================
